---- MODULE Spec2Model ----
(***************************************************************************)
(* Model of the EAEPT workflow engine (src/workflow/eaept_engine.py):      *)
(* the phase scheduler, the budget check after a phase, the JSON snapshot  *)
(* of the session and the command line that drives one engine per process. *)
(*                                                                         *)
(* Numbers in [0,1] of the source (confidence, quality, thresholds) are    *)
(* kept as integer percentages, so 0.85 is 85.  Time stamps are kept as    *)
(* "set / not set" (end_time) or left out (start_time, last_update), and   *)
(* the token counters token_usage_start/end are left out: none of them is  *)
(* read by any branch of the engine.  The file system is taken as          *)
(* reliable: open/write/unlink do not fail.                                *)
(*                                                                         *)
(* Spec is the command line program.  SpecConc adds a concurrent reader of *)
(* the snapshot, SpecAgain a further call of execute_full_workflow on the  *)
(* engine of a paused or failed session, SpecInterrupt an interrupt        *)
(* arriving during execute_full_workflow, SpecConfig builds engines with   *)
(* config files.                                                           *)
(***************************************************************************)
EXTENDS Integers, Sequences, FiniteSets, TLC

VARIABLES
    file,            \* config/.eaept-state.json: [kind, data]
    config_file,     \* config/eaept-config.yaml: sequence of phase overrides
    orchestrator,    \* whether OrchestrationEngine could be imported
    pc,              \* position of the running process
    runs,            \* number of commands so far
    current_phase,   \* self.current_phase
    current_task,    \* self.current_task
    workflow_state,  \* self.workflow_state['workflow_state']
    phase_configs,   \* self.phase_configs
    phase_metrics,   \* self.phase_metrics
    call,            \* what happened during the running call (history)
    result,          \* what the caller of the command observes
    observed         \* what a concurrent reader of the snapshot last saw

vars == <<file, config_file, orchestrator, pc, runs, current_phase, current_task,
          workflow_state, phase_configs, phase_metrics, call, result, observed>>

engine == <<current_phase, current_task, workflow_state, phase_configs, phase_metrics>>

----------------------------------------------------------------------------
(* Bounds *)

\* Number of commands in one behaviour: command line invocations (one
\* process each) and further calls of execute_full_workflow on an engine.
MaxRuns == 2

\* Number of budget checks of one process in which the analyzer reports a
\* consumption over the phase's threshold.
MaxOverBudget == 1

\* Number of entries of the 'phases' mapping of a config file.
MaxEntries == 2

----------------------------------------------------------------------------
(* Phases, configs, metrics *)

\* class EAEPTPhase; also phase_order of _transition_to_next_phase.
PhaseOrder == <<"express", "ask", "explore", "plan", "code", "test", "complete">>

EAEPTPhase == {PhaseOrder[i] : i \in 1..Len(PhaseOrder)}

IndexOf(p) == CHOOSE i \in 1..Len(PhaseOrder) : PhaseOrder[i] = p

\* The assistant's context limit, the divisor of the budget ratio.
TotalBudget == 200000

\* default_configs of _load_phase_configs (thresholds in percent).
DefaultConfigs ==
    [p \in EAEPTPhase \ {"complete"} |->
        CASE p = "express" -> [auto_transition_threshold |-> 85, token_threshold |-> 60]
          [] p = "ask"     -> [auto_transition_threshold |-> 90, token_threshold |-> 50]
          [] p = "explore" -> [auto_transition_threshold |-> 80, token_threshold |-> 85]
          [] p = "plan"    -> [auto_transition_threshold |-> 85, token_threshold |-> 70]
          [] p = "code"    -> [auto_transition_threshold |-> 80, token_threshold |-> 90]
          [] p = "test"    -> [auto_transition_threshold |-> 90, token_threshold |-> 80]]

\* One entry of the 'phases' mapping merged over a config: only the keys the
\* config has (hasattr) are set.
MergeFields(cfg, fields) ==
    [k \in DOMAIN cfg |-> IF k \in DOMAIN fields THEN fields[k] ELSE cfg[k]]

\* The loop over custom_config['phases'].items(): EAEPTPhase(phase_name)
\* raises ValueError on an unknown name, which the surrounding except catches,
\* so the entries after it are not applied.
RECURSIVE ApplyOverrides(_, _)
ApplyOverrides(configs, entries) ==
    IF entries = <<>> THEN configs
    ELSE LET e == Head(entries) IN
         IF e.name \notin EAEPTPhase THEN configs
         ELSE IF e.name \in DOMAIN configs
              THEN ApplyOverrides(
                     [configs EXCEPT ![e.name] = MergeFields(@, e.fields)],
                     Tail(entries))
              ELSE ApplyOverrides(configs, Tail(entries))

_load_phase_configs(cf) == ApplyOverrides(DefaultConfigs, cf)

\* PhaseMetrics.__init__
PhaseMetrics ==
    [end_time |-> FALSE, context_optimizations |-> 0,
     completion_confidence |-> 0, quality_score |-> 0, notes |-> <<>>]

----------------------------------------------------------------------------
(* The snapshot file *)

\* The dictionary _load_workflow_state returns when there is nothing to load.
DefaultState ==
    [current_phase |-> "express", current_task |-> "",
     workflow_state |-> "initialized", phase_metrics |-> <<>>]

\* File contents: kind is "missing", "corrupt" (not JSON), "empty"
\* (truncated by open(.., 'w')), "partial" (a prefix of a dump) or "snapshot".
\* data is the session the bytes of the file spell out: for a snapshot the
\* dictionary that was dumped, for a file that is no JSON document whatever
\* a reader that skipped the parse would take from it.
NoFile      == [kind |-> "missing", data |-> DefaultState]
CorruptFile ==
    [kind |-> "corrupt",
     data |-> [current_phase |-> "plan", current_task |-> "#garbled#",
               workflow_state |-> "paused", phase_metrics |-> <<>>]]

\* Whether json.load parses the file.
Parseable(f) == f.kind = "snapshot"

\* _load_workflow_state without its try/except around json.load.
LoadUnguarded(f) ==
    IF f.kind # "missing" THEN f.data ELSE DefaultState

_load_workflow_state(f) ==
    IF f.kind # "missing" /\ Parseable(f) THEN f.data ELSE DefaultState

\* The per-phase dictionary written by _save_workflow_state.
SavedMetrics(m) ==
    [end_time |-> m.end_time, completion_confidence |-> m.completion_confidence,
     quality_score |-> m.quality_score, notes |-> m.notes]

\* state_data of _save_workflow_state.
StateData(phase, task, status, metrics) ==
    [current_phase |-> phase, current_task |-> task, workflow_state |-> status,
     phase_metrics |-> [p \in DOMAIN metrics |-> SavedMetrics(metrics[p])]]

----------------------------------------------------------------------------
(* Collaborators: what the phase bodies, the analyzer and the orchestrator
   may answer.  These are the inputs of one phase execution. *)

\* Built-in bodies of which one, Plan's, reports less than its threshold.
BuiltinResultLow(p) ==
    CASE p = "express" -> [status |-> "completed", confidence |-> 85, quality |-> 80]
      [] p = "ask"     -> [status |-> "completed", confidence |-> 90, quality |-> 85]
      [] p = "explore" -> [status |-> "completed", confidence |-> 80, quality |-> 85]
      [] p = "plan"    -> [status |-> "completed", confidence |-> 84, quality |-> 90]
      [] p = "code"    -> [status |-> "completed", confidence |-> 80, quality |-> 85]
      [] p = "test"    -> [status |-> "completed", confidence |-> 90, quality |-> 95]
      [] OTHER         -> [status |-> "unknown_phase"]

\* The dictionaries the built-in _execute_<phase>_phase methods return.
BuiltinResult(p) ==
    CASE p = "express" -> [status |-> "completed", confidence |-> 85, quality |-> 80]
      [] p = "ask"     -> [status |-> "completed", confidence |-> 90, quality |-> 85]
      [] p = "explore" -> [status |-> "completed", confidence |-> 80, quality |-> 85]
      [] p = "plan"    -> [status |-> "completed", confidence |-> 85, quality |-> 90]
      [] p = "code"    -> [status |-> "completed", confidence |-> 80, quality |-> 85]
      [] p = "test"    -> [status |-> "completed", confidence |-> 90, quality |-> 95]
      [] OTHER         -> [status |-> "unknown_phase"]

\* Results of a phase executor other than the built-in one: a low
\* confidence, and a result that supplies neither confidence nor quality.
ExecutorResults ==
    {[status |-> "completed", confidence |-> 50, quality |-> 60],
     [status |-> "completed"]}

Bodies(p) == {BuiltinResult(p)} \cup ExecutorResults

\* The result of an executor that reports the same confidence, above every
\* default threshold, for every phase.
UniformResult == [status |-> "completed", confidence |-> 95, quality |-> 95]

\* Whether the engine has closed a phase with the uniform executor's
\* confidence, and whether it has closed a phase with another one.
UniformStarted(pm) ==
    \E q \in DOMAIN pm :
        pm[q].end_time /\ pm[q].completion_confidence = UniformResult.confidence

OtherStarted(pm) ==
    \E q \in DOMAIN pm :
        pm[q].end_time /\ pm[q].completion_confidence # UniformResult.confidence

\* The executors that may run phase p on an engine with metrics pm.  The
\* uniform executor is one executor for a whole session: it runs the first
\* phase an engine executes or none, and after it only it runs.
PhaseBodies(p, pm) ==
    IF UniformStarted(pm) /\ ~OtherStarted(pm) THEN {UniformResult}
    ELSE IF ~OtherStarted(pm) THEN Bodies(p) \cup {UniformResult}
    ELSE Bodies(p)

\* command_executed of the dictionary orchestrate() returns.
TriggerResults == {"none", "compact", ""}

\* result.get(key, default)
Get(r, key, default) == IF key \in DOMAIN r THEN r[key] ELSE default

\* Token counts the analyzer reports at the end of a phase whose
\* token_threshold is thr percent: exactly the threshold, and one above.
Counts(thr) == {(thr * TotalBudget) \div 100, (thr * TotalBudget) \div 100 + 1}

\* a1, a2, a3: the analyzer's answers at the start of the phase, at its end
\* and inside the budget check; count: the consumption it reports at the end
\* of the phase; trig: the orchestrator's answer.
NoInput ==
    [a1 |-> "ok", body_raises |-> FALSE, body |-> [status |-> "completed"],
     a2 |-> "ok", a3 |-> "ok", count |-> 0, trig |-> "none"]

\* The inputs of one execution of phase p, without the combinations that
\* differ only in answers that are never asked for.
PhaseInputs(p) ==
    IF p \notin DOMAIN phase_configs \/ p \notin DOMAIN phase_metrics
    THEN {NoInput}
    ELSE LET ok   == {[NoInput EXCEPT !.body = b] :
                         b \in PhaseBodies(p, phase_metrics)}
             thr  == phase_configs[p].token_threshold
             over == IF call.over < MaxOverBudget
                     THEN {c \in Counts(thr) : c * 100 > thr * TotalBudget}
                     ELSE {}
         IN  {[NoInput EXCEPT !.body_raises = TRUE]} \cup
             IF ~orchestrator THEN ok
             ELSE {[NoInput EXCEPT !.a1 = "raise"]} \cup
                  {[i EXCEPT !.a2 = "raise"] : i \in ok} \cup
                  {[i EXCEPT !.a3 = "raise"] : i \in ok} \cup
                  {[i EXCEPT !.count = c] :
                      i \in ok, c \in {c \in Counts(thr) : c * 100 <= thr * TotalBudget}} \cup
                  {[i EXCEPT !.count = c, !.trig = t] :
                      i \in ok, c \in over, t \in TriggerResults \cup {"raise"}}

----------------------------------------------------------------------------
(* One phase execution *)

\* What the last execution of a phase did (history, not program state):
\* action is the command_executed the orchestrator answered in the budget
\* check ("not called" without a call), optimized the change of the phase's
\* context_optimizations made by the check.
NoLast ==
    [phase |-> "none", body |-> "none", reported |-> -1, raised_by |-> "none",
     check |-> "none", count |-> -1, trigger_calls |-> 0,
     action |-> "not called", optimized |-> 0]

\* _handle_context_optimization(config) for phase p with metrics map pm.
_handle_context_optimization(pm, p, cfg, in) ==
    LET quiet == [phase_metrics |-> pm, raised_by |-> "none", check |-> "none",
                  trigger_calls |-> 0, action |-> "not called"]
    IN  IF ~orchestrator THEN quiet
        ELSE IF in.a3 = "raise" THEN [quiet EXCEPT !.raised_by = "budget_analyzer"]
        ELSE LET ran == [quiet EXCEPT !.check = "ran"]
             IN  IF in.count * 100 > cfg.token_threshold * TotalBudget
                 THEN IF in.trig = "raise"
                      THEN [ran EXCEPT !.raised_by = "orchestrate", !.trigger_calls = 1]
                      ELSE IF in.trig # "none"
                      THEN [ran EXCEPT !.trigger_calls = 1, !.action = in.trig,
                                       !.phase_metrics[p].context_optimizations = @ + 1]
                      ELSE [ran EXCEPT !.trigger_calls = 1, !.action = in.trig]
                 ELSE ran

\* The except clause of execute_current_phase without its note.
PhaseFailedNoNote(pm, p, who, last) ==
    [phase_metrics |-> [pm EXCEPT ![p].end_time = TRUE],
     raised |-> TRUE,
     last |-> [last EXCEPT !.raised_by = who]]

\* The except clause of execute_current_phase.
PhaseFailed(pm, p, who, last) ==
    [phase_metrics |-> [pm EXCEPT ![p].end_time = TRUE,
                                 ![p].notes = Append(@, "Error: " \o who)],
     raised |-> TRUE,
     last |-> [last EXCEPT !.raised_by = who]]

\* execute_current_phase() on the engine's state with inputs in: the new
\* metrics map, whether it raised, and the history of what it did.
execute_current_phase(in) ==
    LET p  == current_phase
        pm == phase_metrics
        l0 == [NoLast EXCEPT !.phase = p]
    IN  IF p \notin DOMAIN phase_configs \/ p \notin DOMAIN pm
        THEN [phase_metrics |-> pm, raised |-> TRUE,
              last |-> [l0 EXCEPT !.raised_by = "KeyError"]]
        ELSE IF orchestrator /\ in.a1 = "raise"
        THEN [phase_metrics |-> pm, raised |-> TRUE,
              last |-> [l0 EXCEPT !.raised_by = "analyzer"]]
        ELSE IF in.body_raises
        THEN PhaseFailed(pm, p, "body", [l0 EXCEPT !.body = "raised"])
        ELSE
          LET cfg == phase_configs[p]
              l1  == [l0 EXCEPT !.body = "ok",
                                !.reported = Get(in.body, "confidence", 80)]
              pm1 == [pm EXCEPT ![p].end_time = TRUE]
          IN  IF orchestrator /\ in.a2 = "raise"
              THEN PhaseFailed(pm1, p, "analyzer", l1)
              ELSE
                LET h == IF cfg.token_threshold # 0 /\ orchestrator
                         THEN _handle_context_optimization(pm1, p, cfg, in)
                         ELSE [phase_metrics |-> pm1, raised_by |-> "none",
                               check |-> "none", trigger_calls |-> 0,
                               action |-> "not called"]
                    l2 == [l1 EXCEPT !.check = h.check,
                                     !.count = IF orchestrator THEN in.count ELSE -1,
                                     !.trigger_calls = h.trigger_calls,
                                     !.action = h.action,
                                     !.optimized =
                                         h.phase_metrics[p].context_optimizations
                                           - pm1[p].context_optimizations]
                IN  IF h.raised_by # "none"
                    THEN PhaseFailed(h.phase_metrics, p, h.raised_by, l2)
                    ELSE [phase_metrics |->
                            [h.phase_metrics EXCEPT
                               ![p].completion_confidence = Get(in.body, "confidence", 80),
                               ![p].quality_score = Get(in.body, "quality", 80)],
                          raised |-> FALSE,
                          last |-> l2]

\* A decision that holds when the confidence equals the threshold.
ShouldTransitionStrict(pm) ==
    pm[current_phase].completion_confidence
        > phase_configs[current_phase].auto_transition_threshold

\* _should_auto_transition() with metrics map pm.
_should_auto_transition(pm) ==
    ~(pm[current_phase].completion_confidence
        < phase_configs[current_phase].auto_transition_threshold)

\* A transition that stays at the phase.
NextPhaseStays(p) == p

\* A transition that skips a phase.
NextPhaseSkips(p) ==
    IF IndexOf(p) + 1 < Len(PhaseOrder) THEN PhaseOrder[IndexOf(p) + 2] ELSE "complete"

\* The phase _transition_to_next_phase moves to.
NextPhase(p) ==
    IF IndexOf(p) < Len(PhaseOrder) THEN PhaseOrder[IndexOf(p) + 1] ELSE "complete"

----------------------------------------------------------------------------
(* The engine of one process *)

\* dict[key] = value
Put(d, key, value) ==
    [k \in DOMAIN d \cup {key} |-> IF k = key THEN value ELSE d[k]]

\* EAEPTWorkflowEngine.__init__ on snapshot file f and config file cf.
EngineInit(f, cf) ==
    LET ws == _load_workflow_state(f) IN
    [current_phase  |-> ws.current_phase,
     current_task   |-> ws.current_task,
     workflow_state |-> ws.workflow_state,
     phase_configs  |-> _load_phase_configs(cf),
     phase_metrics  |-> [p \in {q \in EAEPTPhase : q \notin DOMAIN ws.phase_metrics}
                            |-> PhaseMetrics]]

\* sum(f(m) for m in self.phase_metrics.values())
RECURSIVE SumOver(_, _, _)
SumOver(pm, ps, field) ==
    IF ps = {} THEN 0
    ELSE LET p == CHOOSE q \in ps : TRUE
         IN  pm[p][field] + SumOver(pm, ps \ {p}, field)

\* round(total / n, 2) on percentages: the quotient rounded to the nearest
\* whole percent, a tie to the even one.
RoundedMean(total, n) ==
    LET q == total \div n
        r == total % n
    IN  IF 2 * r < n THEN q
        ELSE IF 2 * r > n THEN q + 1
        ELSE IF q % 2 = 0 THEN q ELSE q + 1

NoSummary ==
    [present |-> FALSE, task |-> "", phases_completed |-> 0, records |-> 0,
     confidence_sum |-> 0, quality_sum |-> 0,
     average_confidence |-> 0, average_quality |-> 0,
     context_optimizations |-> 0]

\* A summary that counts every metrics record as a completed phase.
SummaryCountsAllRecords(pm, task) ==
    [present |-> TRUE, task |-> task,
     phases_completed |-> Cardinality(DOMAIN pm),
     records |-> Cardinality(DOMAIN pm),
     confidence_sum |-> SumOver(pm, DOMAIN pm, "completion_confidence"),
     quality_sum |-> SumOver(pm, DOMAIN pm, "quality_score"),
     average_confidence |->
         RoundedMean(SumOver(pm, DOMAIN pm, "completion_confidence"),
                     Cardinality(DOMAIN pm)),
     average_quality |->
         RoundedMean(SumOver(pm, DOMAIN pm, "quality_score"),
                     Cardinality(DOMAIN pm)),
     context_optimizations |-> SumOver(pm, DOMAIN pm, "context_optimizations")]

\* _generate_workflow_summary() on a non-empty metrics map; next to the two
\* averages the summary keeps the sum and the number of records they divide by.
_generate_workflow_summary(pm, task) ==
    [present |-> TRUE, task |-> task,
     phases_completed |-> Cardinality({p \in DOMAIN pm : pm[p].end_time}),
     records |-> Cardinality(DOMAIN pm),
     confidence_sum |-> SumOver(pm, DOMAIN pm, "completion_confidence"),
     quality_sum |-> SumOver(pm, DOMAIN pm, "quality_score"),
     average_confidence |->
         RoundedMean(SumOver(pm, DOMAIN pm, "completion_confidence"),
                     Cardinality(DOMAIN pm)),
     average_quality |->
         RoundedMean(SumOver(pm, DOMAIN pm, "quality_score"),
                     Cardinality(DOMAIN pm)),
     context_optimizations |-> SumOver(pm, DOMAIN pm, "context_optimizations")]

\* What the caller of a command gets: how the call ended, whether the
\* returned dictionary has an 'error' entry, and the workflow summary.
NoResult == [outcome |-> "none", error |-> FALSE, summary |-> NoSummary]

\* An except clause of execute_full_workflow that loses the error.
WorkflowErrorDropped(res) == res

\* The except clause of execute_full_workflow: workflow_results['error'].
WorkflowError(res) == [res EXCEPT !.error = TRUE]

\* The running call: the command, the file its engine was built from, the
\* phase and the status of the session the call found and goes on with
\* ("none" for a start, which begins a new session), the phases whose
\* bodies it has invoked, the number of calls of the orchestrator from a
\* budget check in its process, its last transition decision, where it goes
\* after the save in progress, its last phase execution, and the current
\* phase at the moment an interrupt reached it ("none" without one).
NoCall ==
    [cmd |-> "none", auto |-> FALSE, loaded_kind |-> "none",
     loaded_phase |-> "none", loaded_status |-> "none",
     bodies |-> <<>>, over |-> 0,
     decision |-> "none", ret |-> "none", last |-> NoLast,
     interrupted_at |-> "none"]

Tasks == {"add retry logic"}

\* A config file that sets the budget threshold of one phase to 0.
ZeroBudgetConfig == <<[name |-> "express", fields |-> [token_threshold |-> 0]]>>

Idle == pc \in {"idle", "returned", "raised"}

\* The installations tried: the snapshot file, the config file, and whether
\* the orchestration engine is importable.
Environments ==
    {[file |-> NoFile,      config_file |-> <<>>,  orchestrator |-> FALSE],
     [file |-> CorruptFile, config_file |-> <<>>,  orchestrator |-> FALSE],
     [file |-> NoFile,      config_file |-> <<>>,  orchestrator |-> TRUE],
     [file |-> NoFile,      config_file |-> ZeroBudgetConfig, orchestrator |-> TRUE]}

Init ==
    /\ \E env \in Environments :
          /\ file = env.file
          /\ config_file = env.config_file
          /\ orchestrator = env.orchestrator
    /\ pc = "idle"
    /\ runs = 0
    /\ current_phase = DefaultState.current_phase
    /\ current_task = DefaultState.current_task
    /\ workflow_state = DefaultState.workflow_state
    /\ phase_configs = DefaultConfigs
    /\ phase_metrics = <<>>
    /\ call = NoCall
    /\ result = NoResult
    /\ observed = "none"

\* main(): a new process builds its engine from the files.
NewProcess(e, cmd, auto) ==
    /\ runs' = runs + 1
    /\ phase_configs' = e.phase_configs
    /\ call' = [NoCall EXCEPT !.cmd = cmd, !.auto = auto,
                              !.loaded_kind = file.kind,
                              !.loaded_phase =
                                  IF cmd = "start" THEN "none" ELSE e.current_phase,
                              !.loaded_status =
                                  IF cmd = "start" THEN "none" ELSE e.workflow_state]
    /\ UNCHANGED <<config_file, orchestrator, observed>>

\* --start: start_workflow(task, auto_execute) up to the call of
\* execute_full_workflow or execute_current_phase; start_orch is the answer
\* of the orchestrator's first call.
StartWorkflow(task, auto, start_orch) ==
    /\ Idle /\ runs < MaxRuns
    /\ LET e == EngineInit(file, config_file) IN
       /\ NewProcess(e, "start", auto)
       /\ current_task' = task
       /\ current_phase' = "express"
       /\ workflow_state' = "in_progress"
       /\ IF orchestrator /\ start_orch = "raise"
          THEN /\ phase_metrics' = e.phase_metrics
               /\ pc' = "raised"
               /\ result' = [NoResult EXCEPT !.outcome = "raised"]
          ELSE /\ phase_metrics' = Put(e.phase_metrics, "express", PhaseMetrics)
               /\ pc' = IF auto THEN "loop" ELSE "single"
               /\ result' = NoResult
    /\ UNCHANGED file

\* --continue-workflow: execute_full_workflow() on the loaded engine.
ContinueWorkflow ==
    /\ Idle /\ runs < MaxRuns
    /\ LET e == EngineInit(file, config_file) IN
       /\ NewProcess(e, "continue", TRUE)
       /\ current_task' = e.current_task
       /\ current_phase' = e.current_phase
       /\ workflow_state' = e.workflow_state
       /\ phase_metrics' = e.phase_metrics
    /\ pc' = "loop"
    /\ result' = NoResult
    /\ UNCHANGED file

\* execute_full_workflow() called once more on the engine of a process
\* whose earlier call of it has returned with the session paused or in
\* error.
ExecuteFullWorkflowAgain ==
    /\ pc = "returned" /\ runs < MaxRuns
    /\ call.auto /\ call.cmd \in {"start", "continue", "resume"}
    /\ workflow_state \in {"paused", "error"}
    /\ runs' = runs + 1
    /\ call' = [call EXCEPT !.cmd = "resume",
                            !.loaded_phase = current_phase,
                            !.loaded_status = workflow_state,
                            !.bodies = <<>>, !.decision = "none",
                            !.ret = "none", !.last = NoLast]
    /\ pc' = "loop"
    /\ result' = NoResult
    /\ UNCHANGED <<file, config_file, orchestrator, engine, observed>>

\* --phase NAME: main() sets current_phase to EAEPTPhase(NAME); a name that
\* is no phase raises ValueError, which main() reports and returns.
ExecutePhase(name) ==
    /\ Idle /\ runs < MaxRuns
    /\ LET e == EngineInit(file, config_file) IN
       /\ NewProcess(e, "phase", FALSE)
       /\ current_task' = e.current_task
       /\ current_phase' = IF name \in EAEPTPhase THEN name ELSE e.current_phase
       /\ workflow_state' = e.workflow_state
       /\ phase_metrics' = e.phase_metrics
    /\ pc' = IF name \in EAEPTPhase THEN "single" ELSE "returned"
    /\ result' = IF name \in EAEPTPhase THEN NoResult
                 ELSE [NoResult EXCEPT !.outcome = "returned"]
    /\ UNCHANGED file

\* --status: get_workflow_status() reads the loaded engine.
GetStatus ==
    /\ Idle /\ runs < MaxRuns
    /\ LET e == EngineInit(file, config_file) IN
       /\ NewProcess(e, "status", FALSE)
       /\ current_task' = e.current_task
       /\ current_phase' = e.current_phase
       /\ workflow_state' = e.workflow_state
       /\ phase_metrics' = e.phase_metrics
    /\ pc' = "returned"
    /\ result' = [NoResult EXCEPT !.outcome = "returned"]
    /\ UNCHANGED file

\* A reset that leaves the snapshot file where it is.
UnlinkSkipped(f) == f

\* if workflow.state_path.exists(): workflow.state_path.unlink()
state_path_unlink(f) == IF f.kind # "missing" THEN NoFile ELSE f

\* --reset: unlink the snapshot if it exists.
Reset ==
    /\ Idle /\ runs < MaxRuns
    /\ LET e == EngineInit(file, config_file) IN
       /\ NewProcess(e, "reset", FALSE)
       /\ current_task' = e.current_task
       /\ current_phase' = e.current_phase
       /\ workflow_state' = e.workflow_state
       /\ phase_metrics' = e.phase_metrics
    /\ file' = state_path_unlink(file)
    /\ pc' = "returned"
    /\ result' = [NoResult EXCEPT !.outcome = "returned"]

\* execute_current_phase() called on its own (start without auto-execute,
\* --phase): its result is returned, its exception propagates.
ExecuteOne ==
    /\ pc = "single"
    /\ \E in \in PhaseInputs(current_phase) :
         LET r == execute_current_phase(in) IN
         /\ phase_metrics' = r.phase_metrics
         /\ call' = [call EXCEPT !.last = r.last,
                        !.over = @ + r.last.trigger_calls,
                        !.bodies = IF r.last.body # "none"
                                   THEN Append(@, current_phase) ELSE @]
         /\ pc' = IF r.raised THEN "raised" ELSE "returned"
         /\ result' = [result EXCEPT !.outcome = IF r.raised THEN "raised" ELSE "returned"]
    /\ UNCHANGED <<file, config_file, orchestrator, runs, current_phase,
                   current_task, workflow_state, phase_configs, observed>>

\* One iteration of the while loop of execute_full_workflow.
LoopIteration ==
    /\ pc = "loop" /\ current_phase # "complete"
    /\ \E in \in PhaseInputs(current_phase) :
         LET r == execute_current_phase(in)
             ran == IF r.last.body # "none"
                    THEN Append(call.bodies, current_phase) ELSE call.bodies
         IN  /\ phase_metrics' =
                   IF ~r.raised /\ _should_auto_transition(r.phase_metrics)
                   THEN Put(r.phase_metrics, NextPhase(current_phase), PhaseMetrics)
                   ELSE r.phase_metrics
             /\ IF r.raised
                THEN /\ workflow_state' = "error"
                     /\ result' = WorkflowError(result)
                     /\ call' = [call EXCEPT !.last = r.last, !.bodies = ran,
                                             !.over = @ + r.last.trigger_calls,
                                             !.decision = "none", !.ret = "returned"]
                     /\ UNCHANGED current_phase
                ELSE IF _should_auto_transition(r.phase_metrics)
                THEN /\ current_phase' = NextPhase(current_phase)
                     /\ call' = [call EXCEPT !.last = r.last, !.bodies = ran,
                                             !.over = @ + r.last.trigger_calls,
                                             !.decision = "advance", !.ret = "loop"]
                     /\ UNCHANGED <<workflow_state, result>>
                ELSE /\ workflow_state' = "paused"
                     /\ call' = [call EXCEPT !.last = r.last, !.bodies = ran,
                                             !.over = @ + r.last.trigger_calls,
                                             !.decision = "hold", !.ret = "returned"]
                     /\ UNCHANGED <<current_phase, result>>
    /\ pc' = "save"
    /\ UNCHANGED <<file, config_file, orchestrator, runs, current_task,
                   phase_configs, observed>>

\* The end of execute_full_workflow once the phase is COMPLETE: the summary,
\* whose averages divide by len(self.phase_metrics).
LoopExit ==
    /\ pc = "loop" /\ current_phase = "complete"
    /\ IF DOMAIN phase_metrics = {}
       THEN /\ workflow_state' = "error"
            /\ result' = WorkflowError(result)
       ELSE /\ result' = [result EXCEPT !.summary =
                             _generate_workflow_summary(phase_metrics, current_task)]
            /\ UNCHANGED workflow_state
    /\ call' = [call EXCEPT !.ret = "returned"]
    /\ pc' = "save"
    /\ UNCHANGED <<file, config_file, orchestrator, runs, current_phase,
                   current_task, phase_configs, phase_metrics, observed>>

\* _save_workflow_state(): open(self.state_path, 'w') truncates the file.
OpenForWrite ==
    /\ pc = "save"
    /\ file' = [kind |-> "empty", data |-> DefaultState]
    /\ pc' = "dump"
    /\ UNCHANGED <<config_file, orchestrator, runs, engine, call, result, observed>>

\* json.dump(state_data, f): part of the text reaches the file.
FlushChunk ==
    /\ pc = "dump" /\ file.kind = "empty"
    /\ file' = [kind |-> "partial", data |-> DefaultState]
    /\ UNCHANGED <<config_file, orchestrator, pc, runs, engine, call, result, observed>>

\* The with block ends: the whole snapshot is in the file.
CloseFile ==
    /\ pc = "dump"
    /\ file' = [kind |-> "snapshot",
                data |-> StateData(current_phase, current_task, workflow_state,
                                   phase_metrics)]
    /\ pc' = call.ret
    /\ result' = IF call.ret \in {"returned", "raised"}
                 THEN [result EXCEPT !.outcome = call.ret] ELSE result
    /\ UNCHANGED <<config_file, orchestrator, runs, engine, call, observed>>

\* A KeyboardInterrupt or a cancellation (a BaseException, which no
\* 'except Exception' of the engine catches) reaches execute_full_workflow.
\* Inside the loop it leaves through the finally clause, which saves; in a
\* phase it may come before or after the body's end_time is set; in the
\* save of a transition it leaves the write where it is and the finally
\* clause saves again.  Inside the finally clause itself it ends the save
\* that is in progress and propagates.
Interrupt ==
    /\ pc \in {"loop", "save", "dump"}
    /\ call.interrupted_at = "none"
    /\ IF pc = "loop"
       THEN /\ \E closed \in BOOLEAN :
                 phase_metrics' =
                     IF closed /\ current_phase \in DOMAIN phase_metrics
                               /\ current_phase # "complete"
                     THEN [phase_metrics EXCEPT ![current_phase].end_time = TRUE]
                     ELSE phase_metrics
            /\ pc' = "save"
            /\ call' = [call EXCEPT !.interrupted_at = current_phase,
                                    !.ret = "raised"]
            /\ UNCHANGED result
       ELSE IF call.ret = "loop"
       THEN /\ pc' = "save"
            /\ call' = [call EXCEPT !.interrupted_at = current_phase,
                                    !.ret = "raised"]
            /\ UNCHANGED <<phase_metrics, result>>
       ELSE /\ pc' = "raised"
            /\ call' = [call EXCEPT !.interrupted_at = current_phase]
            /\ result' = [result EXCEPT !.outcome = "raised"]
            /\ UNCHANGED phase_metrics
    /\ UNCHANGED <<file, config_file, orchestrator, runs, current_phase,
                   current_task, workflow_state, phase_configs, observed>>

\* Another process reads the snapshot file while this one runs: what
\* _load_workflow_state finds in the file at that moment.
ConcurrentLoad ==
    /\ observed' = file.kind
    /\ UNCHANGED <<file, config_file, orchestrator, pc, runs, engine, call, result>>

PhaseNames == EAEPTPhase \cup {"review"}

Next ==
    \/ \E t \in Tasks, a \in BOOLEAN, o \in {"ok", "raise"} : StartWorkflow(t, a, o)
    \/ ContinueWorkflow
    \/ \E n \in PhaseNames : ExecutePhase(n)
    \/ GetStatus
    \/ Reset
    \/ ExecuteOne
    \/ LoopIteration
    \/ LoopExit
    \/ OpenForWrite
    \/ CloseFile

Spec == Init /\ [][Next]_vars

\* Sessions started with auto_execute on an installation without a config
\* file, with or without the orchestrator, whose running call goes on:
\* executors and collaborators return or raise, and the writes of a save
\* end.
InitLive == Init /\ config_file = <<>>

NextLive ==
    \/ \E t \in Tasks, o \in {"ok", "raise"} : StartWorkflow(t, TRUE, o)
    \/ LoopIteration
    \/ LoopExit
    \/ OpenForWrite
    \/ CloseFile

SpecLive ==
    /\ InitLive /\ [][NextLive]_vars
    /\ WF_vars(LoopIteration) /\ WF_vars(LoopExit)
    /\ WF_vars(OpenForWrite) /\ WF_vars(CloseFile)

\* The same program, without orchestrator and config file, next to a second
\* process that reads the snapshot, with the chunks of a dump reaching the
\* file one after the other.
InitConc == Init /\ ~orchestrator /\ config_file = <<>>

SpecConc == InitConc /\ [][Next \/ FlushChunk \/ ConcurrentLoad]_vars

\* The engine used as a library: a caller may call execute_full_workflow
\* again on the engine whose session paused or failed.
InitAgain == Init /\ ~orchestrator /\ config_file = <<>>

SpecAgain == InitAgain /\ [][Next \/ ExecuteFullWorkflowAgain]_vars

\* The entries a 'phases' mapping is made of: two configured phases, the
\* phase without a config, a name that is no phase; a known field, and a
\* known field next to one PhaseConfig does not have.
OverrideEntries ==
    {[name |-> n, fields |-> f] :
        n \in {"express", "ask", "complete", "review"},
        f \in {[auto_transition_threshold |-> 50],
               [token_threshold |-> 0, colour |-> 1]}}

\* The config files tried: the mappings of at most MaxEntries entries, in
\* the order of the file, each key once.
ConfigFiles ==
    UNION {{cf \in [1..n -> OverrideEntries] :
               \A i, j \in 1..n : i # j => cf[i].name # cf[j].name} :
           n \in 0..MaxEntries}

\* The loading of config files: engines are built and asked for their
\* status, the snapshot is reset.
InitConfig ==
    /\ file = NoFile
    /\ config_file \in ConfigFiles
    /\ orchestrator = FALSE
    /\ pc = "idle"
    /\ runs = 0
    /\ current_phase = DefaultState.current_phase
    /\ current_task = DefaultState.current_task
    /\ workflow_state = DefaultState.workflow_state
    /\ phase_configs = DefaultConfigs
    /\ phase_metrics = <<>>
    /\ call = NoCall
    /\ result = NoResult
    /\ observed = "none"

SpecConfig == InitConfig /\ [][GetStatus \/ Reset]_vars

\* The program with an interrupt arriving during execute_full_workflow.
InitInterrupt == Init /\ ~orchestrator /\ config_file = <<>>

SpecInterrupt == InitInterrupt /\ [][Next \/ Interrupt]_vars

----------------------------------------------------------------------------
(* Properties *)

\* The running call is execute_full_workflow (start with auto-execute, or
\* continue) and has gone through its loop at least once.
InRunLoop ==
    /\ call.cmd \in {"start", "continue", "resume"} /\ call.auto
    /\ pc \in {"loop", "save", "dump", "returned"}
    /\ call.last.phase # "none"

LastPhase == call.last.phase

Threshold(p) == phase_configs[p].auto_transition_threshold

Persisted(status, phase) ==
    /\ file.kind = "snapshot"
    /\ file.data.workflow_state = status
    /\ file.data.current_phase = phase

\* C1: a start with auto-execute on an engine built without a snapshot, in
\* which no phase held and nothing failed, returns with the current phase
\* COMPLETE and the status 'completed', in memory and in the snapshot.
C1_CompletedStatus ==
    ( /\ pc = "returned" /\ call.cmd = "start" /\ call.auto
      /\ call.loaded_kind = "missing"
      /\ call.decision # "hold" /\ ~result.error )
    => /\ current_phase = "complete"
       /\ workflow_state = "completed"
       /\ Persisted("completed", "complete")

\* C2: when the run loop executed phase P and its body reported a
\* confidence below P's auto_transition_threshold, the loop exits at P with
\* status 'paused' and P is the last body invoked in the call.
C2_PauseBelowThreshold ==
    ( /\ InRunLoop /\ call.last.body = "ok"
      /\ call.last.reported < Threshold(LastPhase) )
    => /\ workflow_state = "paused"
       /\ current_phase = LastPhase
       /\ call.ret = "returned"
       /\ call.bodies[Len(call.bodies)] = LastPhase

\* C3: when the body of phase P raised in the run loop, the status is
\* 'error', the current phase is still P, P's metrics end with the failure
\* note, P is the last body invoked in the call, the call is on its way out,
\* and once it has returned the snapshot records 'error' at P with the note.
C3_BodyFailureStops ==
    ( InRunLoop /\ call.last.body = "raised" )
    => /\ workflow_state = "error"
       /\ current_phase = LastPhase
       /\ phase_metrics[LastPhase].notes # <<>>
       /\ phase_metrics[LastPhase].notes[Len(phase_metrics[LastPhase].notes)]
             = "Error: body"
       /\ call.bodies[Len(call.bodies)] = LastPhase
       /\ call.ret = "returned" /\ pc # "loop"
       /\ pc = "returned" =>
             /\ Persisted("error", LastPhase)
             /\ file.data.phase_metrics[LastPhase].notes
                   = phase_metrics[LastPhase].notes

C3_Witness ==
    /\ InRunLoop /\ call.last.body = "raised" /\ LastPhase = "explore"
    /\ pc = "returned"

C5_FailOpen ==
    ( /\ InRunLoop /\ call.last.body = "ok"
      /\ call.last.raised_by \in {"budget_analyzer", "orchestrate"} )
    => /\ workflow_state # "error"
       /\ phase_metrics[LastPhase].completion_confidence = call.last.reported
       /\ call.decision \in {"advance", "hold"}

\* C6: after a phase whose body succeeded and at whose end the analyzer
\* reported a consumption, the orchestrator was called (once) exactly if
\* consumption / TotalBudget is above the phase's token_threshold.
C6_StrictThreshold ==
    ( /\ call.last.body = "ok" /\ call.last.count >= 0
      /\ call.last.raised_by \in {"none", "orchestrate"} )
    => /\ call.last.trigger_calls \in {0, 1}
       /\ (call.last.trigger_calls = 1) <=>
             (call.last.count * 100
                > phase_configs[LastPhase].token_threshold * TotalBudget)

\* C7: an engine built from a snapshot has the snapshot's phase, status and
\* task, and for every phase with metrics in the snapshot the same metrics.
C7_RoundTrip ==
    ( /\ call.cmd = "status" /\ pc = "returned" /\ call.loaded_kind = "snapshot" )
    => /\ current_phase = file.data.current_phase
       /\ workflow_state = file.data.workflow_state
       /\ current_task = file.data.current_task
       /\ \A p \in DOMAIN file.data.phase_metrics :
             /\ p \in DOMAIN phase_metrics
             /\ SavedMetrics(phase_metrics[p]) = file.data.phase_metrics[p]

\* C8: continue on an engine built from a snapshot whose phase P is not
\* COMPLETE, with no body and no collaborator failing, goes on with P and
\* does not end in status 'error'.
C8_Resumable ==
    ( /\ call.cmd = "continue" /\ pc = "returned"
      /\ call.loaded_kind = "snapshot" /\ call.loaded_phase # "complete"
      /\ call.last.raised_by \in {"none", "KeyError"} )
    => /\ workflow_state # "error"
       /\ call.bodies # <<>>
       /\ call.bodies[1] = call.loaded_phase

\* The state of an engine as its constructor leaves it: the call has not
\* run a phase yet.
JustLoaded ==
    \/ call.cmd = "status" /\ pc = "returned"
    \/ call.cmd = "continue" /\ pc = "loop" /\ call.last.phase = "none"

\* C9: an engine built while the snapshot file is missing or is no JSON
\* document is in the initial state (phase express, status 'initialized',
\* empty task, every metrics record untouched), and the file is still there
\* as it was.
C9_LoadFallsBack ==
    ( JustLoaded /\ call.loaded_kind \in {"missing", "corrupt", "empty", "partial"} )
    => /\ pc # "raised"
       /\ current_phase = "express"
       /\ workflow_state = "initialized"
       /\ current_task = ""
       /\ \A p \in DOMAIN phase_metrics : phase_metrics[p] = PhaseMetrics
       /\ file.kind = call.loaded_kind

C9_Witness ==
    /\ JustLoaded /\ call.loaded_kind = "corrupt" /\ call.cmd = "status"
    /\ file = CorruptFile

\* C10: a process that reads the snapshot file while another one saves never
\* finds it empty or partially written.
C10_AtomicSave == observed \notin {"empty", "partial"}

\* A start with auto-execute on an engine built without a snapshot that
\* reached COMPLETE and returned its summary, no phase failing or holding.
FreshRunCompleted ==
    /\ pc = "returned" /\ call.cmd = "start" /\ call.auto
    /\ call.loaded_kind = "missing"
    /\ current_phase = "complete" /\ result.summary.present /\ ~result.error

Executed == EAEPTPhase \ {"complete"}

\* C11: when a fresh session ran to completion and each of the six executed
\* phases recorded the same confidence c, the summary's average confidence
\* is c.
C11_AverageIsCommonConfidence ==
    FreshRunCompleted =>
        \A c \in 0..100 :
            (\A p \in Executed : phase_metrics[p].completion_confidence = c)
            => result.summary.average_confidence = c

\* C12: when a fresh session ran to completion without pause or failure,
\* the summary's phases_completed is 6, the number of phases before
\* COMPLETE: each of them has an end time and the COMPLETE record has none.
C12_SixPhasesCompleted ==
    FreshRunCompleted =>
        /\ result.summary.phases_completed = 6
        /\ result.summary.phases_completed = Cardinality(Executed)
        /\ \A p \in Executed : phase_metrics[p].end_time
        /\ "complete" \in DOMAIN phase_metrics
        /\ ~phase_metrics["complete"].end_time

C12_Witness ==
    /\ FreshRunCompleted
    /\ result.summary.records = 7
    /\ call.bodies = <<"express", "ask", "explore", "plan", "code", "test">>

\* The running call is a resume (continue in a new process, or a further
\* call on the same engine) of a session that was paused at phase P.
ResumedPaused ==
    /\ call.cmd \in {"continue", "resume"}
    /\ call.loaded_status = "paused"

PausedAt == call.loaded_phase

\* C13: a resume of a session paused at P does not invoke P's body.
C13_ResumeDoesNotRerun ==
    ResumedPaused =>
        \A i \in 1..Len(call.bodies) : call.bodies[i] # PausedAt

\* C14: when a resume of a session paused at P has returned, no collaborator
\* having failed and the confidence recorded for P, if P was executed again,
\* being below P's threshold again, the session is at P with status
\* 'paused' and no phase after P was executed.
C14_IdempotentHold ==
    ( /\ ResumedPaused /\ pc = "returned"
      /\ call.last.raised_by \in {"none", "KeyError"}
      /\ PausedAt \in DOMAIN phase_metrics =>
            phase_metrics[PausedAt].completion_confidence < Threshold(PausedAt) )
    => /\ current_phase = PausedAt
       /\ workflow_state = "paused"
       /\ \A i \in 1..Len(call.bodies) : call.bodies[i] = PausedAt

\* The canonical initial state of an engine: phase express, status
\* 'initialized', empty task, every metrics record untouched.
InitialEngine(e) ==
    /\ e.current_phase = "express"
    /\ e.workflow_state = "initialized"
    /\ e.current_task = ""
    /\ \A p \in DOMAIN e.phase_metrics : e.phase_metrics[p] = PhaseMetrics

\* C15: once --reset has returned, whatever session it found, the snapshot
\* file is gone, the state a load reads is the default one with no recorded
\* metrics, and the engine the next process builds is the initial one.
C15_ResetDiscards ==
    ( call.cmd = "reset" /\ pc = "returned" )
    => /\ file.kind = "missing"
       /\ _load_workflow_state(file) = DefaultState
       /\ _load_workflow_state(file).phase_metrics = <<>>
       /\ InitialEngine(EngineInit(file, config_file))

C15_Witness ==
    /\ call.cmd = "reset" /\ pc = "returned"
    /\ call.loaded_kind = "snapshot" /\ call.loaded_status = "paused"
    /\ call.loaded_phase = "ask"
    /\ file.kind = "missing"

\* C16: once a start without auto-execute has returned normally, the
\* snapshot file records the task given, phase express and status
\* 'in_progress'.
C16_ManualStartPersists ==
    ( call.cmd = "start" /\ ~call.auto /\ pc = "returned" )
    => /\ Persisted("in_progress", "express")
       /\ file.data.current_task = current_task
       /\ current_task \in Tasks

\* C17: whenever a phase executed in the run loop did not raise, a decision
\* was taken, and it is advance exactly if the confidence recorded for the
\* phase is at least the phase's auto_transition_threshold, whatever the
\* consumption, the optimization count, the quality and the status are.
C17_DecisionByConfidence ==
    ( InRunLoop /\ call.last.raised_by = "none" )
    => /\ call.decision \in {"advance", "hold"}
       /\ call.last.body = "ok"
       /\ phase_metrics[LastPhase].completion_confidence = call.last.reported
       /\ (call.decision = "advance") <=>
             (call.last.reported >= Threshold(LastPhase))
       /\ (call.decision = "hold") <=>
             (call.last.reported < Threshold(LastPhase))

C17_Witness ==
    /\ InRunLoop /\ call.last.raised_by = "none"
    /\ call.decision = "advance"
    /\ call.last.reported = Threshold(LastPhase)
    /\ phase_metrics[LastPhase].context_optimizations = 1
    /\ phase_metrics[LastPhase].quality_score < call.last.reported

\* C18: in the budget check after a phase whose body succeeded, the phase's
\* context_optimizations goes up by 1 if the orchestrator was called and
\* answered a non-empty action identifier other than 'none', and is
\* unchanged for every other answer and without a call.
C18_CountsReportedActions ==
    ( call.last.body = "ok" /\ call.last.raised_by = "none" )
    => /\ call.last.optimized \in {0, 1}
       /\ (call.last.optimized = 1) <=>
             ( /\ call.last.trigger_calls = 1
               /\ call.last.action \notin {"", "none", "not called"} )

\* C19: when execute_full_workflow found the phase COMPLETE on an engine
\* without any metrics record and has returned, the status is not 'error'
\* and the result has no 'error' entry.
C19_SummaryWithoutRecords ==
    ( /\ call.cmd = "continue" /\ pc = "returned"
      /\ call.loaded_phase = "complete" /\ DOMAIN phase_metrics = {} )
    => /\ workflow_state # "error"
       /\ ~result.error

\* C20: once an interrupt that arrived during execute_full_workflow has
\* propagated to the caller, the snapshot file records the phase that was
\* current when it arrived.
C20_InterruptPersists ==
    ( call.interrupted_at # "none" /\ pc = "raised" )
    => /\ result.outcome = "raised"
       /\ file.kind = "snapshot"
       /\ file.data.current_phase = call.interrupted_at
       /\ file.data.current_phase = current_phase

\* C21: in an engine built with a config file, for every entry of the file
\* that names a configured phase, each field of the entry that PhaseConfig
\* has holds the entry's value, whatever other entries the file has and
\* wherever they stand; every field no entry sets holds its default.
C21_OverridesMerged ==
    call.cmd # "none" =>
        /\ DOMAIN phase_configs = DOMAIN DefaultConfigs
        /\ \A i \in 1..Len(config_file) :
              LET e == config_file[i] IN
              e.name \in DOMAIN DefaultConfigs =>
                 \A k \in DOMAIN e.fields \cap DOMAIN DefaultConfigs[e.name] :
                     phase_configs[e.name][k] = e.fields[k]
        /\ \A p \in DOMAIN DefaultConfigs : \A k \in DOMAIN DefaultConfigs[p] :
              (\A i \in 1..Len(config_file) :
                   ~(config_file[i].name = p /\ k \in DOMAIN config_file[i].fields))
              => phase_configs[p][k] = DefaultConfigs[p][k]

\* C22: the status is 'paused' only while the last decision of the running
\* call, if it has taken one, was hold; and when a call that went on with a
\* paused or failed session has decided to advance, the status is neither
\* 'paused' nor 'error'.
C22_ResumeLeavesPaused ==
    /\ workflow_state = "paused" => call.decision \in {"hold", "none"}
    /\ ( /\ call.cmd \in {"continue", "resume"}
         /\ call.loaded_status \in {"paused", "error"}
         /\ call.decision = "advance" )
       => workflow_state \notin {"paused", "error"}

\* What a step of the run loop may do to the current phase.
OrderedStep ==
    pc \in {"loop", "save", "dump"} =>
        \/ current_phase' = current_phase
        \/ /\ current_phase # "complete"
           /\ IndexOf(current_phase') = IndexOf(current_phase) + 1
           /\ call'.last.phase = current_phase
           /\ call'.last.body = "ok" /\ call'.last.raised_by = "none"
           /\ call'.decision = "advance"
           /\ pc' = "save" /\ call'.ret = "loop"

\* C23: a step of the run loop leaves the current phase as it is or moves
\* it from a phase before COMPLETE to its immediate successor, and then the
\* body of the phase left succeeded, the decision was advance and the save
\* of the transition comes next; when the loop goes on after an advance the
\* snapshot records the new phase.
C23_PhaseOrder ==
    /\ [][OrderedStep]_vars
    /\ [](pc = "loop" /\ call.decision = "advance"
            => Persisted(workflow_state, current_phase))

C23_Witness ==
    /\ pc = "loop" /\ call.decision = "advance"
    /\ current_phase = "plan"
    /\ call.bodies = <<"express", "ask", "explore">>
    /\ Persisted(workflow_state, "plan")

\* The running call is execute_full_workflow.
RunLoopCall == call.auto /\ call.cmd \in {"start", "continue"}

\* What the caller of execute_full_workflow receives: a completed result
\* (phase COMPLETE and the summary), a paused one (the session held at a
\* phase), or a result tagged with 'error'.
CompletedOutcome ==
    /\ current_phase = "complete" /\ result.summary.present /\ ~result.error
PausedOutcome ==
    /\ current_phase # "complete" /\ workflow_state = "paused"
    /\ call.decision = "hold" /\ ~result.summary.present /\ ~result.error
ErrorOutcome ==
    /\ result.error /\ workflow_state = "error" /\ ~result.summary.present

\* Within one call no body was invoked twice, and at most six were.
BodiesOnce ==
    /\ Len(call.bodies) <= 6
    /\ \A i, j \in 1..Len(call.bodies) :
          i # j => call.bodies[i] # call.bodies[j]

\* C24: a call of execute_full_workflow invokes each phase body at most
\* once and at most six bodies, it returns, and when it has returned the
\* caller has exactly one of a completed, a paused and an error result.
C24_Terminates ==
    /\ [](RunLoopCall => BodiesOnce)
    /\ [](RunLoopCall /\ pc = "returned" =>
            /\ CompletedOutcome \/ PausedOutcome \/ ErrorOutcome
            /\ ~(CompletedOutcome /\ PausedOutcome)
            /\ ~(CompletedOutcome /\ ErrorOutcome)
            /\ ~(PausedOutcome /\ ErrorOutcome))
    /\ (RunLoopCall /\ pc = "loop") ~> (RunLoopCall /\ pc = "returned")

C24_Witness ==
    /\ RunLoopCall /\ pc = "returned" /\ PausedOutcome
    /\ call.bodies = <<"express", "ask", "explore", "plan", "code">>
    /\ orchestrator

\* C25: in a session started on an engine built without a snapshot, the
\* metrics map holds no record of a phase that comes after the current
\* phase.
C25_NoLaterRecords ==
    (call.cmd = "start" /\ call.loaded_kind = "missing") =>
        \A p \in DOMAIN phase_metrics : IndexOf(p) <= IndexOf(current_phase)

\* C26: after an execution of a phase that ended without a failure, the
\* record of that phase holds no note, and its context_optimizations counts
\* the optimizations of this execution only.
C26_FreshRecord ==
    (/\ LastPhase \in DOMAIN phase_metrics
     /\ call.last.body = "ok" /\ call.last.raised_by = "none") =>
        /\ phase_metrics[LastPhase].notes = <<>>
        /\ phase_metrics[LastPhase].context_optimizations = call.last.optimized

\* A call of execute_current_phase made outside the run loop, by a start
\* without auto_execute or by --phase.
ManualCall == call.cmd \in {"start", "phase"} /\ ~call.auto

\* C27: when the body raises in a manual call, the failure is a note of the
\* phase's record, the status is 'error' and the snapshot file holds it
\* when the exception reaches the caller; a manual call that succeeds
\* leaves the status and the current phase as they were.
C27_ManualFailurePersisted ==
    /\ (ManualCall /\ pc = "raised" /\ call.last.body = "raised") =>
          /\ phase_metrics[LastPhase].notes # <<>>
          /\ workflow_state = "error"
          /\ Persisted("error", current_phase)
    /\ (ManualCall /\ pc = "returned" /\ call.last.body = "ok") =>
          /\ current_phase = LastPhase
          /\ workflow_state =
                IF call.cmd = "start" THEN "in_progress" ELSE call.loaded_status

\* A call of the run loop made by a start with auto_execute, without
\* orchestrator and with the default configs, in which every body invoked
\* so far was the built-in one and returned.
BuiltinRun ==
    /\ call.cmd = "start" /\ call.auto /\ ~orchestrator
    /\ phase_configs = DefaultConfigs
    /\ pc \in {"loop", "save", "dump", "returned"}
    /\ call.last.body # "raised" /\ call.last.raised_by = "none"
    /\ \A i \in 1..Len(call.bodies) :
          LET q == call.bodies[i] IN
          /\ phase_metrics[q].completion_confidence = BuiltinResult(q).confidence
          /\ phase_metrics[q].quality_score = BuiltinResult(q).quality

\* C28: a started run of the built-in bodies under the default configs
\* without orchestrator never holds: every body invoked recorded exactly
\* its phase's threshold, the bodies ran in the fixed order, no
\* context_optimizations is above 0, and the call returns at COMPLETE with
\* a summary after the six of them.
C28_BuiltinRunCompletes ==
    BuiltinRun =>
        /\ call.decision # "hold" /\ workflow_state # "paused" /\ ~result.error
        /\ call.bodies = SubSeq(PhaseOrder, 1, Len(call.bodies))
        /\ \A i \in 1..Len(call.bodies) :
              phase_metrics[call.bodies[i]].completion_confidence
                = Threshold(call.bodies[i])
        /\ \A q \in DOMAIN phase_metrics :
              phase_metrics[q].context_optimizations = 0
        /\ pc = "returned" =>
              /\ current_phase = "complete"
              /\ result.summary.present
              /\ call.bodies = <<"express", "ask", "explore", "plan", "code", "test">>

C28_Witness ==
    /\ BuiltinRun /\ pc = "returned"
    /\ Len(call.bodies) = 6 /\ current_phase = "complete"
    /\ result.summary.present

====
